---- MODULE Spec2Model ----
(***************************************************************************)
(* grafton-visca: a VISCA camera-control client.                           *)
(*                                                                         *)
(* Two specifications over one set of variables:                           *)
(*   Spec       send_command_and_wait over a transport (src/lib.rs): the   *)
(*              device puts reply messages on the wire, the transport      *)
(*              reads them in arbitrary chunks, frames them with           *)
(*              parse_response and the engine examines them in order.      *)
(*   SpecFrame  receive_response + parse_response fed an arbitrary byte    *)
(*              sequence in arbitrary chunks.                              *)
(* Bytes are naturals in 0..255; a message is a sequence of bytes.         *)
(***************************************************************************)
EXTENDS Naturals, Integers, Sequences, FiniteSets, TLC

VARIABLES
    \* ---- Spec: the engine and its transport ----
    pc,             \* position of the caller: "idle", "recv", "loop", "done", "panic"
    command,        \* the command of the current call, "none" outside a call
    wire,           \* bytes the device has sent that no read has returned yet
    emittedCount,   \* number of messages the device has put on the wire
    received_data,  \* receive_response's accumulator (lib.rs:121)
    responses,      \* framed messages the for loop has not examined yet (lib.rs:156)
    result,         \* what the call returned: [tag |-> "None" | "Ok" | "Err" | "Panic"]
    lastMsg,        \* the message the for loop examined last in this call, <<>> if none
    endedBy,        \* the message on which the call returned, <<>> if none
    ioError,        \* the error the transport's send/receive returned in this call
    sends,          \* send_command invocations of this call
    calls,          \* send_command_and_wait calls made on this transport
    inFlight,       \* commands sent whose call has not returned
    staleFrames,    \* history: messages this call has yet to examine that were on the
                    \* wire before its command was sent
    \* ---- SpecFrame: the frame splitter alone ----
    fWhole,         \* the whole byte sequence the peer sends
    fInput,         \* the part of fWhole no read has returned yet
    fData,          \* receive_response's accumulator (lib.rs:121)
    fEmitted,       \* all messages returned by receive_response so far, in order
    fFed,           \* all bytes the reads have returned so far
    fReads,         \* number of reads so far
    fFailed,        \* "none", or how a receive_response failed: "read", "parse"
    \* ---- SpecCodec: one call of a constructor, an encoder or a decoder ----
    cCall,          \* the call made: [op |-> name, ...arguments], op "none" before it
    cOut            \* what the call returned

engineVars == <<pc, command, wire, emittedCount, received_data, responses, result,
                lastMsg, endedBy, ioError, sends, calls, inFlight,
                staleFrames>>
frameVars == <<fWhole, fInput, fData, fEmitted, fFed, fReads, fFailed>>
codecVars == <<cCall, cOut>>
vars == <<engineVars, frameVars, codecVars>>

(***************************************************************************)
(* Bounds of the model.                                                    *)
(***************************************************************************)
MaxMsgs == 2        \* messages the device emits on one transport
MaxCalls == 2       \* send_command_and_wait calls on one transport
MaxLen == 6         \* length of the byte sequence fed to the frame splitter

(***************************************************************************)
(* Protocol constants.                                                     *)
(***************************************************************************)
HEADER == 144        \* 0x90
TERMINATOR == 255    \* 0xFF
ACK_LO == 64         \* 0x40
ACK_HI == 79         \* 0x4F
COMPLETION_LO == 80  \* 0x50
COMPLETION_HI == 95  \* 0x5F
ERROR_LO == 96       \* 0x60
ERROR_HI == 111      \* 0x6F
INQUIRY_CODE == 80   \* 0x50
PAN_TILT_LEN == 11
POSITION_LEN == 7
MODE_LEN == 4

Last(s) == s[Len(s)]

RECURSIVE Flatten(_)
Flatten(ss) == IF ss = <<>> THEN <<>> ELSE Head(ss) \o Flatten(Tail(ss))

(***************************************************************************)
(* error.rs: ViscaError::from_code.                                        *)
(***************************************************************************)
from_code(code) ==
    CASE code = 2  -> [kind |-> "SyntaxError"]
      [] code = 3  -> [kind |-> "CommandBufferFull"]
      [] code = 4  -> [kind |-> "CommandCanceled"]
      [] code = 5  -> [kind |-> "NoSocket"]
      [] code = 65 -> [kind |-> "CommandNotExecutable"]
      [] OTHER     -> [kind |-> "Unknown", code |-> code]

(***************************************************************************)
(* 16-bit arithmetic of the position decoders (command/response.rs).       *)
(***************************************************************************)
RECURSIVE BitOr(_, _)
BitOr(a, b) ==
    IF a = 0 THEN b
    ELSE IF b = 0 THEN a
    ELSE (IF a % 2 = 1 \/ b % 2 = 1 THEN 1 ELSE 0) + 2 * BitOr(a \div 2, b \div 2)

RECURSIVE Pow2(_)
Pow2(n) == IF n = 0 THEN 1 ELSE 2 * Pow2(n - 1)

\* (byte as u16) << n : bits shifted past bit 15 are lost
Shl16(byte, n) == (byte * Pow2(n)) % 65536

\* Faulty variant of Combine16: the second byte is shifted by 4, not 8.
Combine16_misplaced(b0, b1, b2, b3) ==
    BitOr(BitOr(BitOr(Shl16(b0, 12), Shl16(b1, 4)), Shl16(b2, 4)), b3)

\* b0 << 12 | b1 << 8 | b2 << 4 | b3, on 16 bits
Combine16(b0, b1, b2, b3) ==
    BitOr(BitOr(BitOr(Shl16(b0, 12), Shl16(b1, 8)), Shl16(b2, 4)), b3)

\* the same bits read as an i16
AsI16(u) == IF u >= 32768 THEN u - 65536 ELSE u

ExposureModes == {0, 3, 10, 11, 13}
WhiteBalanceModes == {0, 1, 2, 3, 5, 32}

(***************************************************************************)
(* command/response.rs: parse_visca_response.                              *)
(***************************************************************************)
\* Faulty variant of invalid_response_format: the last byte is not tested.
invalid_response_format_no_terminator(response) ==
    Len(response) < 3 \/ response[1] # HEADER

\* the test of response.rs:68, evaluated left to right
invalid_response_format(response) ==
    Len(response) < 3 \/ response[1] # HEADER \/ Last(response) # TERMINATOR

parse_visca_response(response, response_type) ==
    IF invalid_response_format(response)
    THEN [tag |-> "Err", err |-> [kind |-> "InvalidResponseFormat"]]
    ELSE LET code == response[2] IN
      IF code \in ACK_LO..ACK_HI THEN [tag |-> "Ack"]
      ELSE IF code \in COMPLETION_LO..COMPLETION_HI THEN
        IF Len(response) = 3 THEN [tag |-> "Completion"]
        ELSE CASE response_type = "PanTiltPosition" ->
                    IF Len(response) # PAN_TILT_LEN
                    THEN [tag |-> "Err", err |-> [kind |-> "InvalidResponseLength"]]
                    ELSE [tag |-> "Inquiry", what |-> "PanTiltPosition",
                          pan |-> AsI16(Combine16(response[3], response[4],
                                                  response[5], response[6])),
                          tilt |-> AsI16(Combine16(response[7], response[8],
                                                   response[9], response[10]))]
               [] response_type \in {"ZoomPosition", "FocusPosition"} ->
                    IF Len(response) # POSITION_LEN
                    THEN [tag |-> "Err", err |-> [kind |-> "InvalidResponseLength"]]
                    ELSE [tag |-> "Inquiry", what |-> response_type,
                          position |-> Combine16(response[3], response[4],
                                                 response[5], response[6])]
               [] response_type = "ExposureMode" ->
                    IF Len(response) # MODE_LEN
                    THEN [tag |-> "Err", err |-> [kind |-> "InvalidResponseLength"]]
                    ELSE IF response[3] \notin ExposureModes
                    THEN [tag |-> "Err", err |-> [kind |-> "UnexpectedResponseType"]]
                    ELSE [tag |-> "Inquiry", what |-> "ExposureMode",
                          mode |-> response[3]]
               [] response_type = "WhiteBalanceMode" ->
                    IF Len(response) # MODE_LEN
                    THEN [tag |-> "Err", err |-> [kind |-> "InvalidResponseLength"]]
                    ELSE IF response[3] \notin WhiteBalanceModes
                    THEN [tag |-> "Err", err |-> [kind |-> "UnexpectedResponseType"]]
                    ELSE [tag |-> "Inquiry", what |-> "WhiteBalance",
                          mode |-> response[3]]
               [] OTHER -> [tag |-> "Completion"]
      ELSE IF code \in ERROR_LO..ERROR_HI THEN [tag |-> "Err", err |-> from_code(response[3])]
      ELSE [tag |-> "Unknown", raw |-> response]

(***************************************************************************)
(* visca_command.rs: ViscaResponse::from_bytes, the nom decoder.  A parser *)
(* returns [ok |-> TRUE, value |-> v] or [ok |-> FALSE]; like nom's, it    *)
(* consumes a prefix of its input and does not look at what follows.       *)
(***************************************************************************)
NomError == [ok |-> FALSE]
NomOk(v) == [ok |-> TRUE, value |-> v]

\* nom::number::complete::be_u32 on the four bytes input[i..i+3]
be_u32(input, i) ==
    ((input[i] * 256 + input[i + 1]) * 256 + input[i + 2]) * 256 + input[i + 3]

\* map_res(tuple((parse_header, u8, parse_footer)), ...): an Err of the closure
\* becomes a parse error
parse_short_message(input) ==
    IF Len(input) < 3 \/ input[1] # HEADER \/ input[3] # TERMINATOR
    THEN NomError
    ELSE LET code == input[2] IN
         IF code \in ACK_LO..ACK_HI THEN NomOk([tag |-> "Ack"])
         ELSE IF code \in COMPLETION_LO..COMPLETION_HI THEN NomOk([tag |-> "Completion"])
         ELSE NomError

parse_inquiry_response(input, response_type) ==
    IF Len(input) < 2 \/ input[1] # HEADER \/ input[2] # INQUIRY_CODE
    THEN NomError
    ELSE CASE response_type = "PanTiltPosition" ->
                IF Len(input) >= 11 /\ input[11] = TERMINATOR
                THEN NomOk([tag |-> "Inquiry", what |-> "PanTiltPosition",
                            pan |-> be_u32(input, 3), tilt |-> be_u32(input, 7)])
                ELSE NomError
           [] response_type \in {"ZoomPosition", "FocusPosition"} ->
                IF Len(input) >= 7 /\ input[7] = TERMINATOR
                THEN NomOk([tag |-> "Inquiry", what |-> response_type,
                            position |-> be_u32(input, 3)])
                ELSE NomError
           [] response_type \in {"Luminance", "Contrast"} ->
                IF /\ Len(input) >= 7
                   /\ input[3] = 0 /\ input[4] = 0 /\ input[5] = 0
                   /\ input[7] = TERMINATOR
                THEN NomOk([tag |-> "Inquiry", what |-> response_type,
                            value |-> input[6]])
                ELSE NomError
           [] response_type = "WhiteBalanceMode" ->
                IF /\ Len(input) >= 6
                   /\ input[3] = 0 /\ input[4] = 0
                   /\ input[6] = TERMINATOR
                THEN NomOk([tag |-> "Inquiry", what |-> "WhiteBalance",
                            mode |-> input[5]])
                ELSE NomError
           [] OTHER -> NomError

from_bytes(response, response_type) ==
    LET short == parse_short_message(response) IN
    IF short.ok THEN short.value
    ELSE LET inquiry == parse_inquiry_response(response, response_type) IN
         IF inquiry.ok THEN inquiry.value
         ELSE [tag |-> "Err", err |-> [kind |-> "InvalidResponseFormat"]]

(***************************************************************************)
(* lib.rs: parse_response, the frame splitter.                             *)
(***************************************************************************)
RECURSIVE parse_loop(_, _, _, _, _)
parse_loop(buffer, i, resps, response, start_index) ==
    IF i > Len(buffer)
    THEN [responses |-> resps, response |-> response, start_index |-> start_index]
    ELSE LET byte == buffer[i]
             pushed == Append(response, byte)
         IN  IF byte = HEADER
             THEN parse_loop(buffer, i + 1, resps, pushed, TRUE)
             ELSE IF byte = TERMINATOR /\ start_index
             THEN parse_loop(buffer, i + 1, Append(resps, pushed), <<>>, FALSE)
             ELSE parse_loop(buffer, i + 1, resps, pushed, start_index)

parse_response(buffer) ==
    LET s == parse_loop(buffer, 1, <<>>, <<>>, FALSE)
    IN  IF s.start_index
        THEN [ok |-> FALSE, responses |-> <<>>]
        ELSE [ok |-> TRUE, responses |-> s.responses]

(***************************************************************************)
(* lib.rs: receive_response (the UDP and the TCP transport run the same    *)
(* loop).  One read returned `chunk`; the loop stops reading when the last *)
(* byte of that read is the terminator.                                    *)
(***************************************************************************)
\* Faulty variant of extend_from_slice: the read replaces the accumulator.
extend_from_slice_overwrite(received, chunk) == chunk

\* received_data.extend_from_slice(&buffer[..bytes_received])
extend_from_slice(received, chunk) == received \o chunk

\* Faulty variant of ReadEndsBatch: the loop stops after every read.
ReadEndsBatch_always(chunk) == TRUE

ReadEndsBatch(chunk) == Last(chunk) = TERMINATOR

(***************************************************************************)
(* visca_command.rs: ViscaCommand::response_type, for the commands of the  *)
(* model.                                                                  *)
(***************************************************************************)
Commands == {"PanTiltHome", "InquiryPanTiltPosition", "InquiryZoomPosition"}

response_type(c) ==
    CASE c = "InquiryPanTiltPosition"  -> "PanTiltPosition"
      [] c = "InquiryZoomPosition"     -> "ZoomPosition"
      [] OTHER                         -> "None"

(***************************************************************************)
(* lib.rs: the test send_command_and_wait applies to each framed message   *)
(* to decide whether to return Ok(()).                                     *)
(***************************************************************************)
EndsExchange(c, response) ==
    IF response_type(c) = "PanTiltPosition"
    THEN /\ Len(response) = 11
         /\ response[1] = HEADER
         /\ response[2] = INQUIRY_CODE
         /\ response[11] = TERMINATOR
    ELSE \/ Len(response) = 4
         \/ (Len(response) = 3 /\ response[2] \in COMPLETION_LO..COMPLETION_HI)

(***************************************************************************)
(* The device: the messages it may put on the wire.                        *)
(***************************************************************************)
AckMsg == <<144, 65, 255>>                                \* 90 41 FF
CompletionMsg == <<144, 81, 255>>                         \* 90 51 FF
SyntaxErrorMsg == <<144, 96, 2, 255>>                     \* 90 60 02 FF
PanTiltReplyMsg == <<144, 80, 0, 1, 2, 3, 15, 14, 13, 12, 255>>
ZoomReplyMsg == <<144, 80, 0, 4, 0, 0, 255>>
ModeReplyMsg == <<144, 80, 5, 255>>                       \* white balance: manual
Unknown3Msg == <<144, 56, 255>>                           \* 90 38 FF
Unknown4Msg == <<144, 7, 125, 255>>                       \* 90 07 7D FF

DeviceMessages == {AckMsg, CompletionMsg, SyntaxErrorMsg, PanTiltReplyMsg,
                   ZoomReplyMsg, ModeReplyMsg, Unknown3Msg, Unknown4Msg}

\* io::Error values the socket operations may return
IoErrors == {"TimedOut", "ConnectionReset"}

NoResult == [tag |-> "None"]
OkResult == [tag |-> "Ok"]
ErrResult(e) == [tag |-> "Err", kind |-> e]
\* `buffer[bytes_received - 1]` with bytes_received = 0: the subtraction panics
\* where overflow checks are compiled in; elsewhere it wraps to usize::MAX and
\* the index is out of the buffer's bounds.
ZeroReadPanics == {"SubtractOverflow", "IndexOutOfBounds"}
PanicResult(how) == [tag |-> "Panic", how |-> how]

\* the codec variables before any call, and in the specifications that make none
NoCall == [op |-> "none"]
NoOutput == [tag |-> "none"]

(***************************************************************************)
(* Spec: send_command_and_wait over one transport.                         *)
(***************************************************************************)
Init ==
    /\ pc = "idle"
    /\ command = "none"
    /\ wire = <<>>
    /\ emittedCount = 0
    /\ received_data = <<>>
    /\ responses = <<>>
    /\ result = NoResult
    /\ lastMsg = <<>>
    /\ endedBy = <<>>
    /\ ioError = "none"
    /\ sends = 0
    /\ calls = 0
    /\ inFlight = 0
    /\ staleFrames = 0
    /\ fWhole = <<>>
    /\ fInput = <<>>
    /\ fData = <<>>
    /\ fEmitted = <<>>
    /\ fFed = <<>>
    /\ fReads = 0
    /\ fFailed = "none"
    /\ cCall = NoCall
    /\ cOut = NoOutput

\* Faulty variant of CallSendOk: a command is sent while the previous call is
\* still receiving.
CallSendOk_reentrant(c) ==
    /\ pc \in {"idle", "recv"}
    /\ calls < MaxCalls
    /\ pc' = "recv"
    /\ command' = c
    /\ calls' = calls + 1
    /\ sends' = sends + 1
    /\ inFlight' = inFlight + 1
    /\ staleFrames' = Len(parse_loop(wire, 1, <<>>, <<>>, FALSE).responses)
    /\ UNCHANGED <<wire, emittedCount, received_data, responses, result, lastMsg,
                   endedBy, ioError, frameVars, codecVars>>

\* The caller starts send_command_and_wait(transport, c); send_command succeeds.
CallSendOk(c) ==
    /\ pc = "idle"
    /\ calls < MaxCalls
    /\ pc' = "recv"
    /\ command' = c
    /\ calls' = calls + 1
    /\ sends' = sends + 1
    /\ inFlight' = inFlight + 1
    /\ staleFrames' = Len(parse_loop(wire, 1, <<>>, <<>>, FALSE).responses)
    /\ UNCHANGED <<wire, emittedCount, received_data, responses, result, lastMsg,
                   endedBy, ioError, frameVars, codecVars>>

\* The caller starts send_command_and_wait(transport, c); send_command fails
\* with e and the `?` returns it.
CallSendErr(c, e) ==
    /\ pc = "idle"
    /\ calls < MaxCalls
    /\ pc' = "done"
    /\ command' = c
    /\ calls' = calls + 1
    /\ sends' = sends + 1
    /\ ioError' = e
    /\ result' = ErrResult(e)
    /\ UNCHANGED <<wire, emittedCount, received_data, responses, lastMsg, endedBy,
                   inFlight, staleFrames,
                   frameVars, codecVars>>

\* The device puts one more message on the wire.
DeviceEmit(m) ==
    /\ calls >= 1
    /\ pc # "panic"
    /\ emittedCount < MaxMsgs
    /\ wire' = wire \o m
    /\ emittedCount' = emittedCount + 1
    /\ UNCHANGED <<pc, command, received_data, responses, result, lastMsg, endedBy,
                   ioError, sends, calls, inFlight, staleFrames,
                   frameVars, codecVars>>

\* receive_response: one read returns the first n bytes of the wire.  When the
\* read ends in the terminator the accumulated bytes are framed and handed to
\* the for loop of send_command_and_wait.
ReadOk(n) ==
    /\ pc = "recv"
    /\ n \in 1..Len(wire)
    /\ LET chunk == SubSeq(wire, 1, n)
           data == extend_from_slice(received_data, chunk)
           parsed == parse_response(data)
       IN  /\ wire' = SubSeq(wire, n + 1, Len(wire))
           /\ IF ~ReadEndsBatch(chunk)
              THEN /\ received_data' = data
                   /\ UNCHANGED <<pc, responses, result, ioError, inFlight>>
              ELSE /\ received_data' = <<>>
                   /\ IF ~parsed.ok
                      THEN /\ pc' = "done"
                           /\ result' = ErrResult("InvalidData")
                           /\ ioError' = "InvalidData"
                           /\ inFlight' = inFlight - 1
                           /\ UNCHANGED responses
                      ELSE /\ responses' = parsed.responses
                           /\ pc' = IF parsed.responses = <<>> THEN "recv" ELSE "loop"
                           /\ UNCHANGED <<result, ioError, inFlight>>
    /\ UNCHANGED <<command, emittedCount, lastMsg, endedBy, sends, calls,
                   staleFrames, frameVars, codecVars>>

\* receive_response: the read returns Ok(0) (stream closed by the peer, empty
\* datagram); buffer[bytes_received - 1] is evaluated with bytes_received = 0.
ReadZero(how) ==
    /\ pc = "recv"
    /\ pc' = "panic"
    /\ result' = PanicResult(how)
    /\ UNCHANGED <<command, wire, emittedCount, received_data, responses, lastMsg,
                   endedBy, ioError, sends, calls, inFlight, staleFrames,
                   frameVars, codecVars>>

\* Faulty variant of ReadErr: a failed read makes the engine send the command
\* again.
ReadErr_retry(e) ==
    /\ pc = "recv"
    /\ sends < 3
    /\ sends' = sends + 1
    /\ received_data' = <<>>
    /\ UNCHANGED <<pc, command, wire, emittedCount, responses, result, lastMsg,
                   endedBy, ioError, calls, inFlight, staleFrames,
                   frameVars, codecVars>>

\* Faulty variant of ReadErr: a failed read is logged and the engine keeps
\* receiving.
ReadErr_swallow(e) ==
    /\ pc = "recv"
    /\ ioError' = e
    /\ received_data' = <<>>
    /\ UNCHANGED <<pc, command, wire, emittedCount, responses, result, lastMsg,
                   endedBy, sends, calls, inFlight, staleFrames,
                   frameVars, codecVars>>

\* receive_response: the read fails with e (I/O error, deadline expired);
\* receive_response returns Err(e) and send_command_and_wait returns it.
ReadErr(e) ==
    /\ pc = "recv"
    /\ pc' = "done"
    /\ result' = ErrResult(e)
    /\ ioError' = e
    /\ received_data' = <<>>
    /\ inFlight' = inFlight - 1
    /\ staleFrames' = 0
    /\ UNCHANGED <<command, wire, emittedCount, responses, lastMsg, endedBy, sends,
                   calls, frameVars, codecVars>>

\* One iteration of `for response in responses`.
Examine ==
    /\ pc = "loop"
    /\ LET response == Head(responses) IN
         /\ lastMsg' = response
         /\ IF EndsExchange(command, response)
            THEN /\ pc' = "done"
                 /\ result' = OkResult
                 /\ endedBy' = response
                 /\ responses' = <<>>
                 /\ inFlight' = inFlight - 1
                 /\ staleFrames' = 0
            ELSE /\ responses' = Tail(responses)
                 /\ staleFrames' = IF staleFrames > 0 THEN staleFrames - 1 ELSE 0
                 /\ pc' = IF Tail(responses) = <<>> THEN "recv" ELSE "loop"
                 /\ UNCHANGED <<result, endedBy, inFlight>>
    /\ UNCHANGED <<command, wire, emittedCount, received_data, ioError, sends,
                   calls, frameVars, codecVars>>

\* The caller takes the result; the transport is free for the next call.
Return ==
    /\ pc = "done"
    /\ pc' = "idle"
    /\ command' = "none"
    /\ result' = NoResult
    /\ lastMsg' = <<>>
    /\ endedBy' = <<>>
    /\ ioError' = "none"
    /\ sends' = 0
    /\ staleFrames' = 0
    /\ UNCHANGED <<wire, emittedCount, received_data, responses, calls, inFlight,
                   frameVars, codecVars>>

Next ==
    \/ \E c \in Commands : CallSendOk(c)
    \/ \E c \in Commands, e \in IoErrors : CallSendErr(c, e)
    \/ \E m \in DeviceMessages : DeviceEmit(m)
    \/ \E n \in 1..Len(wire) : ReadOk(n)
    \/ \E how \in ZeroReadPanics : ReadZero(how)
    \/ \E e \in IoErrors : ReadErr(e)
    \/ Examine
    \/ Return

Spec == Init /\ [][Next]_vars

(***************************************************************************)
(* SpecFrame: the frame splitter (receive_response's read loop followed by *)
(* parse_response) fed an arbitrary byte sequence in arbitrary chunks.     *)
(***************************************************************************)
FrameBytes == {0, 65, 144, 255}

BoundedSeqs(S, n) == UNION {[1..k -> S] : k \in 0..n}

InitFrame ==
    /\ pc = "idle"
    /\ command = "none"
    /\ wire = <<>>
    /\ emittedCount = 0
    /\ received_data = <<>>
    /\ responses = <<>>
    /\ result = NoResult
    /\ lastMsg = <<>>
    /\ endedBy = <<>>
    /\ ioError = "none"
    /\ sends = 0
    /\ calls = 0
    /\ inFlight = 0
    /\ staleFrames = 0
    /\ fWhole \in BoundedSeqs(FrameBytes, MaxLen)
    /\ fInput = fWhole
    /\ fData = <<>>
    /\ fEmitted = <<>>
    /\ fFed = <<>>
    /\ fReads = 0
    /\ fFailed = "none"
    /\ cCall = NoCall
    /\ cOut = NoOutput

\* One read of receive_response returns the next n bytes.  A read that ends in
\* the terminator ends the loop: the accumulated bytes go through
\* parse_response, its messages are returned, and the next call of
\* receive_response starts with an empty accumulator.
FrameRead(n) ==
    /\ n \in 1..Len(fInput)
    /\ LET chunk == SubSeq(fInput, 1, n)
           data == extend_from_slice(fData, chunk)
           parsed == parse_response(data)
       IN  /\ fInput' = SubSeq(fInput, n + 1, Len(fInput))
           /\ fFed' = fFed \o chunk
           /\ fReads' = fReads + 1
           /\ IF ~ReadEndsBatch(chunk)
              THEN /\ fData' = data
                   /\ UNCHANGED <<fEmitted, fFailed>>
              ELSE /\ fData' = <<>>
                   /\ IF parsed.ok
                      THEN /\ fEmitted' = fEmitted \o parsed.responses
                           /\ UNCHANGED fFailed
                      ELSE /\ fFailed' = "parse"
                           /\ UNCHANGED fEmitted
    /\ UNCHANGED <<fWhole, engineVars, codecVars>>

\* A read fails (I/O error, deadline expired): receive_response returns the
\* error and its accumulator is dropped with it.
FrameReadErr ==
    /\ fFailed = "none"
    /\ fFailed' = "read"
    /\ fData' = <<>>
    /\ UNCHANGED <<fWhole, fInput, fEmitted, fFed, fReads, engineVars, codecVars>>

NextFrame ==
    \/ \E n \in 1..Len(fInput) : FrameRead(n)
    \/ FrameReadErr

SpecFrame == InitFrame /\ [][NextFrame]_vars

(***************************************************************************)
(* Properties.                                                             *)
(***************************************************************************)
WellFramed(m) == Len(m) >= 3 /\ m[1] = HEADER /\ Last(m) = TERMINATOR

Decoded(m) == parse_visca_response(m, response_type(command))

IsAckMsg(m) == Len(m) = 3 /\ Decoded(m).tag = "Ack"
IsCompletionMsg(m) == Len(m) = 3 /\ Decoded(m).tag = "Completion"
IsDeviceErrorMsg(m) == WellFramed(m) /\ m[2] \in ERROR_LO..ERROR_HI
IsInquiryReplyMsg(m) ==
    /\ response_type(command) # "None"
    /\ WellFramed(m)
    /\ m[2] = INQUIRY_CODE
    /\ Decoded(m).tag = "Inquiry"
IsUnrecognizedMsg(m) == Len(m) >= 2 /\ m[2] \notin ACK_LO..ERROR_HI

\* The call returned on the message examined last.
EndedOnLast == pc = "done" /\ endedBy = lastMsg

\* C1: a device error message (code 0x60..0x6F) examined by the engine ends the
\* call, and the call returns a failure carrying the error kind of its subcode
\* (SyntaxError for 90 60 02 FF); it is never a success and never ignored.
C1_DeviceErrorIsFailure ==
    IsDeviceErrorMsg(lastMsg) =>
        /\ EndedOnLast
        /\ result = ErrResult(from_code(lastMsg[3]).kind)

\* C2: an Ack (3 bytes, code 0x40..0x4F) never ends the call, and a Completion
\* (3 bytes, code 0x50..0x5F) examined by the engine ends it with success.
C2_AckThenCompletion ==
    /\ IsAckMsg(lastMsg) => endedBy = <<>>
    /\ IsCompletionMsg(lastMsg) => (EndedOnLast /\ result = OkResult)

\* C3: for an inquiry command, the inquiry reply of its response type (code
\* 0x50, the length of that type) ends the call at once, with success.
C3_InquiryReplyIsTerminal ==
    IsInquiryReplyMsg(lastMsg) => (EndedOnLast /\ result = OkResult)

\* C4: the call never returns on a message whose second byte is outside
\* 0x40..0x6F, whatever its length.
C4_UnrecognizedNeverEnds ==
    endedBy # <<>> => ~IsUnrecognizedMsg(endedBy)

C6_SentExactlyOnce ==
    /\ pc = "idle" => sends = 0
    /\ pc \in {"recv", "loop", "done", "panic"} => sends = 1

C6_Witness ==
    /\ pc = "done"
    /\ sends = 1
    /\ lastMsg = Unknown3Msg
    /\ result = ErrResult("TimedOut")

\* C7: when the transport's send or receive fails, the call has ended and its
\* result is that same error; it did not go on receiving, did not return on a
\* message and did not report success.
C7_TransportErrorPropagated ==
    ioError # "none" =>
        /\ pc = "done"
        /\ result = ErrResult(ioError)
        /\ endedBy = <<>>
        /\ sends = 1

C7_Witness ==
    /\ ioError = "TimedOut"
    /\ lastMsg = AckMsg
    /\ result = ErrResult("TimedOut")

\* C8: the frame splitter never loses bytes: as long as no read failed, the
\* bytes of the messages it returned followed by the bytes it retains are the
\* bytes it was fed.
C8_NoBytesLost ==
    fFailed = "none" => Flatten(fEmitted) \o fData = fFed

\* C9: every message the frame splitter returns has at least 3 bytes.
C9_AtLeastThreeBytes ==
    \A i \in DOMAIN fEmitted : Len(fEmitted[i]) >= 3

\* one well-framed message: header first, terminator last and nowhere else
IsCompleteMessage(m) ==
    /\ WellFramed(m)
    /\ \A i \in 1..(Len(m) - 1) : m[i] # TERMINATOR

\* C10: framing does not depend on chunking: once every byte of one complete
\* message has been read, in however many reads, receive_response has returned
\* exactly that one message, as it does when one read delivers it whole.
C10_ChunkingIndependent ==
    (IsCompleteMessage(fWhole) /\ fInput = <<>> /\ fFailed # "read") =>
        fEmitted = <<fWhole>>

C10_Witness ==
    /\ IsCompleteMessage(fWhole)
    /\ fInput = <<>>
    /\ fReads = 3
    /\ fEmitted = <<fWhole>>


(***************************************************************************)
(* The messages of a byte sequence, read off the sequence itself: each     *)
(* message ends at a terminator, and what follows the last terminator is   *)
(* an unfinished message.                                                  *)
(***************************************************************************)
HasTerminator(s) == \E i \in DOMAIN s : s[i] = TERMINATOR

FirstTerminator(s) ==
    CHOOSE i \in DOMAIN s :
        /\ s[i] = TERMINATOR
        /\ \A j \in 1..(i - 1) : s[j] # TERMINATOR

RECURSIVE Messages(_)
Messages(s) ==
    IF ~HasTerminator(s) THEN <<>>
    ELSE <<SubSeq(s, 1, FirstTerminator(s))>>
             \o Messages(SubSeq(s, FirstTerminator(s) + 1, Len(s)))

RECURSIVE Rest(_)
Rest(s) ==
    IF ~HasTerminator(s) THEN s
    ELSE Rest(SubSeq(s, FirstTerminator(s) + 1, Len(s)))

\* complete messages, then possibly the beginning of one more
MessagesThenPartial(s) ==
    /\ \A i \in DOMAIN Messages(s) : IsCompleteMessage(Messages(s)[i])
    /\ Rest(s) # <<>> => Rest(s)[1] = HEADER

PartiallyAccumulated(data) ==
    /\ Rest(data) # <<>>
    /\ \E i \in DOMAIN Rest(data) : Rest(data)[i] = HEADER

\* the read deadline fires while a message is partially accumulated
DeadlineFiresMidMessage ==
    /\ pc = "recv"
    /\ PartiallyAccumulated(received_data)
    /\ ioError = "none"
    /\ ioError' = "TimedOut"

\* C12: when the read deadline fires while a message is partially
\* accumulated, the call fails with the incomplete-message error (the
\* InvalidData error "Incomplete response received" of parse_response), and
\* the partial bytes are dropped from the accumulator.
C12_IncompleteReported ==
    [][DeadlineFiresMidMessage =>
           /\ result' = ErrResult("InvalidData")
           /\ received_data' = <<>>]_vars


(***************************************************************************)
(* The bounded parameter types and the command encoders.                   *)
(*                                                                         *)
(* A Result is [tag |-> "Ok", ...] or [tag |-> "Err", kind |-> ...]; a     *)
(* panic of the call is [tag |-> "Panic"].                                 *)
(***************************************************************************)
U8 == 0..255
U16 == 0..65535

COMMAND_HEADER == 129        \* 0x81

Ok(bytes) == [tag |-> "Ok", bytes |-> bytes]
Err(kind) == [tag |-> "Err", kind |-> kind]

\* `x as u8`
AsU8(x) == x % 256

\* `x >> n` on an unsigned value
Shr(x, n) == x \div Pow2(n)

\* command/pan_tilt.rs and visca_command.rs: PanSpeed, TiltSpeed
PanSpeed_STOP == 0
PanSpeed_HIGH_SPEED == 24     \* 0x18
TiltSpeed_STOP == 0
TiltSpeed_HIGH_SPEED == 20    \* 0x14

\* Faulty variant of PanSpeed_is_valid_value: the upper end is left out.
PanSpeed_is_valid_value_exclusive(value) ==
    value = PanSpeed_STOP \/ value \in 1..(PanSpeed_HIGH_SPEED - 1)

PanSpeed_is_valid_value(value) ==
    value = PanSpeed_STOP \/ value \in 1..PanSpeed_HIGH_SPEED

PanSpeed_new(value) ==
    IF PanSpeed_is_valid_value(value)
    THEN [tag |-> "Ok", speed |-> value]
    ELSE Err("InvalidParameter")

TiltSpeed_is_valid_value(value) ==
    value = TiltSpeed_STOP \/ value \in 1..TiltSpeed_HIGH_SPEED

TiltSpeed_new(value) ==
    IF TiltSpeed_is_valid_value(value)
    THEN [tag |-> "Ok", speed |-> value]
    ELSE Err("InvalidParameter")

\* PanSpeed::get_value, TiltSpeed::get_value: self.0
get_value(speed) == speed

\* command/zoom.rs, command/focus.rs: the four parameter bytes of Direct.
\* Faulty variant of DirectBytes: the two middle bytes are swapped.
DirectBytes_swapped(position) ==
    <<AsU8(Shr(position, 12)), AsU8(Shr(position, 4)),
      AsU8(Shr(position, 8)), AsU8(position % 16)>>

DirectBytes(position) ==
    <<AsU8(Shr(position, 12)), AsU8(Shr(position, 8)),
      AsU8(Shr(position, 4)), AsU8(position % 16)>>

\* command/zoom.rs: ZoomCommand::to_bytes
ZoomCommand_to_bytes(variant, arg) ==
    CASE variant = "Stop"         -> Ok(<<129, 1, 4, 7, 0, 255>>)
      [] variant = "TeleStandard" -> Ok(<<129, 1, 4, 7, 2, 255>>)
      [] variant = "WideStandard" -> Ok(<<129, 1, 4, 7, 3, 255>>)
      [] variant = "TeleVariable" ->
            IF arg[1] <= 7 THEN Ok(<<129, 1, 4, 7, BitOr(32, arg[1]), 255>>)
            ELSE Err("InvalidParameter")
      [] variant = "WideVariable" ->
            IF arg[1] <= 7 THEN Ok(<<129, 1, 4, 7, BitOr(48, arg[1]), 255>>)
            ELSE Err("InvalidParameter")
      [] variant = "Direct" ->
            Ok(<<129, 1, 4, 71>> \o DirectBytes(arg[1]) \o <<255>>)

\* command/focus.rs: FocusCommand::to_bytes
FocusCommand_to_bytes(variant, arg) ==
    CASE variant = "Stop"           -> Ok(<<129, 1, 4, 8, 0, 255>>)
      [] variant = "FarStandard"    -> Ok(<<129, 1, 4, 8, 2, 255>>)
      [] variant = "NearStandard"   -> Ok(<<129, 1, 4, 8, 3, 255>>)
      [] variant = "FarVariable" ->
            IF arg[1] <= 7 THEN Ok(<<129, 1, 4, 8, BitOr(32, arg[1]), 255>>)
            ELSE Err("InvalidParameter")
      [] variant = "NearVariable" ->
            IF arg[1] <= 7 THEN Ok(<<129, 1, 4, 8, BitOr(48, arg[1]), 255>>)
            ELSE Err("InvalidParameter")
      [] variant = "Direct" ->
            Ok(<<129, 1, 4, 72>> \o DirectBytes(arg[1]) \o <<255>>)
      [] variant = "Auto"           -> Ok(<<129, 1, 4, 56, 2, 255>>)
      [] variant = "Manual"         -> Ok(<<129, 1, 4, 56, 3, 255>>)
      [] variant = "OnePushTrigger" -> Ok(<<129, 1, 4, 24, 1, 255>>)
      [] variant = "Infinity"       -> Ok(<<129, 1, 4, 24, 2, 255>>)


\* command/preset.rs: PresetAction as u8, PresetCommand::to_bytes
PresetAction_as_u8(action) ==
    CASE action = "Reset"  -> 0
      [] action = "Set"    -> 1
      [] action = "Recall" -> 2

PresetCommand_to_bytes(action, preset_number) ==
    IF preset_number <= 89
    THEN Ok(<<129, 1, 4, 63, PresetAction_as_u8(action), preset_number, 255>>)
    ELSE Err("InvalidParameter")

\* command/luminance_contrast_sharpness.rs
LuminanceCommand_to_bytes(value) ==
    IF value <= 14 THEN Ok(<<129, 1, 4, 161, 0, 0, 0, value, 255>>)
    ELSE Err("InvalidParameter")

ContrastCommand_to_bytes(value) ==
    IF value <= 14 THEN Ok(<<129, 1, 4, 162, 0, 0, 0, value, 255>>)
    ELSE Err("InvalidParameter")

SharpnessCommand_to_bytes(value) ==
    IF value <= 11 THEN Ok(<<129, 1, 4, 66, 0, 0, 0, value, 255>>)
    ELSE Err("InvalidParameter")

\* command/pan_tilt.rs: PanTiltDirection::to_bytes, PanTiltCommand::to_bytes
PanTiltDirections ==
    {"Up", "Down", "Left", "Right", "UpLeft", "UpRight", "DownLeft",
     "DownRight", "Stop", "Home"}

PanTiltDirection_to_bytes(direction) ==
    CASE direction = "Up"        -> <<3, 1>>
      [] direction = "Down"      -> <<3, 2>>
      [] direction = "Left"      -> <<1, 3>>
      [] direction = "Right"     -> <<2, 3>>
      [] direction = "UpLeft"    -> <<1, 1>>
      [] direction = "UpRight"   -> <<2, 1>>
      [] direction = "DownLeft"  -> <<1, 2>>
      [] direction = "DownRight" -> <<2, 2>>
      [] direction = "Stop"      -> <<3, 3>>
      [] direction = "Home"      -> <<4, 4>>

PanTiltCommand_to_bytes(direction, pan_speed, tilt_speed) ==
    IF direction = "Home"
    THEN Ok(<<129, 1, 6, 4, 255>>)
    ELSE Ok(<<129, 1, 6, 1, get_value(pan_speed), get_value(tilt_speed)>>
                \o PanTiltDirection_to_bytes(direction) \o <<255>>)

\* visca_command.rs: the enum ViscaCommand and its to_bytes, for the variants
\* of the model.  `0x20 + *p` is u8 arithmetic: when the sum exceeds 255 the
\* call panics in a build with overflow checks and wraps in one without, so
\* the operator gives the set of results the call may have.
AddU8(a, b) ==
    IF a + b <= 255 THEN {[tag |-> "Value", value |-> a + b]}
    ELSE {[tag |-> "Panic"], [tag |-> "Value", value |-> (a + b) % 256]}

ViscaCommand_to_bytes(variant, arg) ==
    CASE variant = "LuminanceDirect" -> {Ok(<<129, 1, 4, 161, 0, 0, 0, arg[1], 255>>)}
      [] variant = "PanTiltHome"     -> {Ok(<<129, 1, 6, 4, 255>>)}
      [] variant = "ZoomStop"        -> {Ok(<<129, 1, 4, 7, 0, 255>>)}
      [] variant = "ZoomTeleAdjustableSpeed" ->
            {IF b.tag = "Panic" THEN b ELSE Ok(<<129, 1, 4, 7, b.value, 255>>) :
                 b \in AddU8(32, arg[1])}
      [] variant = "ZoomWideAdjustableSpeed" ->
            {IF b.tag = "Panic" THEN b ELSE Ok(<<129, 1, 4, 7, b.value, 255>>) :
                 b \in AddU8(48, arg[1])}
      [] variant = "FocusFarAdjustableSpeed" ->
            {IF b.tag = "Panic" THEN b ELSE Ok(<<129, 1, 4, 8, b.value, 255>>) :
                 b \in AddU8(32, arg[1])}
      [] variant = "FocusNearAdjustableSpeed" ->
            {IF b.tag = "Panic" THEN b ELSE Ok(<<129, 1, 4, 8, b.value, 255>>) :
                 b \in AddU8(48, arg[1])}
      [] variant = "PresetRecall"    -> {Ok(<<129, 1, 4, 63, 2, arg[1], 255>>)}


(***************************************************************************)
(* SpecEncode: one call of a bounded-type constructor or of a command      *)
(* encoder, for every value the caller can pass.                           *)
(***************************************************************************)
Call(op, variant, arg) == [op |-> op, variant |-> variant, arg |-> arg]

\* the speeds a PanTiltCommand can hold: PanSpeed and TiltSpeed have a private
\* field, so only what new() accepted (the three constants are among them)
PanSpeeds == {v \in U8 : PanSpeed_new(v).tag = "Ok"}
TiltSpeeds == {v \in U8 : TiltSpeed_new(v).tag = "Ok"}

\* the calls of the model: every constructor argument and every command value
IsEncodeCall(c) ==
    \/ \E v \in U8 : c = Call("PanSpeed::new", "new", <<v>>)
    \/ \E v \in U8 : c = Call("TiltSpeed::new", "new", <<v>>)
    \/ \E v \in {"Stop", "TeleStandard", "WideStandard"} : c = Call("ZoomCommand", v, <<>>)
    \/ \E v \in {"TeleVariable", "WideVariable"}, x \in U8 : c = Call("ZoomCommand", v, <<x>>)
    \/ \E x \in U16 : c = Call("ZoomCommand", "Direct", <<x>>)
    \/ \E v \in {"Stop", "FarStandard", "NearStandard", "Auto", "Manual",
                 "OnePushTrigger", "Infinity"} : c = Call("FocusCommand", v, <<>>)
    \/ \E v \in {"FarVariable", "NearVariable"}, x \in U8 : c = Call("FocusCommand", v, <<x>>)
    \/ \E x \in U16 : c = Call("FocusCommand", "Direct", <<x>>)
    \/ \E v \in {"Reset", "Set", "Recall"}, x \in U8 : c = Call("PresetCommand", v, <<x>>)
    \/ \E v \in U8 : c = Call("LuminanceCommand", "value", <<v>>)
    \/ \E v \in U8 : c = Call("ContrastCommand", "value", <<v>>)
    \/ \E v \in U8 : c = Call("SharpnessCommand", "value", <<v>>)
    \/ \E d \in PanTiltDirections, p \in PanSpeeds, t \in TiltSpeeds :
           c = Call("PanTiltCommand", d, <<p, t>>)
    \/ \E v \in {"PanTiltHome", "ZoomStop"} : c = Call("ViscaCommand", v, <<>>)
    \/ \E v \in {"LuminanceDirect", "ZoomTeleAdjustableSpeed",
                 "ZoomWideAdjustableSpeed", "FocusFarAdjustableSpeed",
                 "FocusNearAdjustableSpeed", "PresetRecall"}, x \in U8 :
           c = Call("ViscaCommand", v, <<x>>)

\* no transport is in use while a constructor, an encoder or a decoder runs
TransportUnused ==
    /\ pc = "idle"
    /\ command = "none"
    /\ wire = <<>>
    /\ emittedCount = 0
    /\ received_data = <<>>
    /\ responses = <<>>
    /\ result = NoResult
    /\ lastMsg = <<>>
    /\ endedBy = <<>>
    /\ ioError = "none"
    /\ sends = 0
    /\ calls = 0
    /\ inFlight = 0
    /\ staleFrames = 0
    /\ fWhole = <<>>
    /\ fInput = <<>>
    /\ fData = <<>>
    /\ fEmitted = <<>>
    /\ fFed = <<>>
    /\ fReads = 0
    /\ fFailed = "none"

InitEncode ==
    /\ TransportUnused
    /\ IsEncodeCall(cCall)
    /\ cOut = NoOutput

\* the call cCall.op is made and returns r
Returns(op, r) ==
    /\ cCall.op = op
    /\ cOut = NoOutput
    /\ cOut' = r
    /\ UNCHANGED <<cCall, engineVars, frameVars>>

NewPanSpeed == Returns("PanSpeed::new", PanSpeed_new(cCall.arg[1]))

NewTiltSpeed == Returns("TiltSpeed::new", TiltSpeed_new(cCall.arg[1]))

EncodeZoom == Returns("ZoomCommand", ZoomCommand_to_bytes(cCall.variant, cCall.arg))

EncodeFocus == Returns("FocusCommand", FocusCommand_to_bytes(cCall.variant, cCall.arg))

EncodePreset ==
    Returns("PresetCommand", PresetCommand_to_bytes(cCall.variant, cCall.arg[1]))

EncodeLuminance == Returns("LuminanceCommand", LuminanceCommand_to_bytes(cCall.arg[1]))

EncodeContrast == Returns("ContrastCommand", ContrastCommand_to_bytes(cCall.arg[1]))

EncodeSharpness == Returns("SharpnessCommand", SharpnessCommand_to_bytes(cCall.arg[1]))

EncodePanTilt ==
    Returns("PanTiltCommand",
            PanTiltCommand_to_bytes(cCall.variant, cCall.arg[1], cCall.arg[2]))

EncodeViscaCommand ==
    /\ cCall.op = "ViscaCommand"
    /\ \E r \in ViscaCommand_to_bytes(cCall.variant, cCall.arg) :
           Returns("ViscaCommand", r)

NextEncode ==
    \/ NewPanSpeed
    \/ NewTiltSpeed
    \/ EncodeZoom
    \/ EncodeFocus
    \/ EncodePreset
    \/ EncodeLuminance
    \/ EncodeContrast
    \/ EncodeSharpness
    \/ EncodePanTilt
    \/ EncodeViscaCommand

SpecEncode == InitEncode /\ [][NextEncode]_vars

\* C13: PanSpeed::new(v) succeeds exactly for v <= 0x18 and TiltSpeed::new(v)
\* exactly for v <= 0x14; the value it returns gives v back from get_value(),
\* and a failed call returns an error and no speed value.
C13_SpeedRange ==
    /\ (cCall.op = "PanSpeed::new" /\ cOut # NoOutput) =>
           IF cCall.arg[1] <= 24
           THEN cOut.tag = "Ok" /\ get_value(cOut.speed) = cCall.arg[1]
           ELSE cOut = Err("InvalidParameter")
    /\ (cCall.op = "TiltSpeed::new" /\ cOut # NoOutput) =>
           IF cCall.arg[1] <= 20
           THEN cOut.tag = "Ok" /\ get_value(cOut.speed) = cCall.arg[1]
           ELSE cOut = Err("InvalidParameter")

\* PanSpeed::new(0x18) has returned a speed whose get_value() is 0x18
C13_Witness ==
    /\ cCall = Call("PanSpeed::new", "new", <<24>>)
    /\ cOut.tag = "Ok"
    /\ get_value(cOut.speed) = 24


\* the call made was to_bytes on a command value
IsEncoderCall ==
    cCall.op \in {"ZoomCommand", "FocusCommand", "PresetCommand", "LuminanceCommand",
                  "ContrastCommand", "SharpnessCommand", "PanTiltCommand",
                  "ViscaCommand"}

\* C14: out-of-range parameters are rejected when the value is constructed and
\* never at encode time: to_bytes returns an error for no command value that
\* can be constructed.
C14_NoEncodeTimeError ==
    (IsEncoderCall /\ cOut # NoOutput) => cOut.tag # "Err"


\* to_bytes of ZoomCommand::Direct or FocusCommand::Direct has returned
DirectEncoded ==
    /\ cCall.op \in {"ZoomCommand", "FocusCommand"}
    /\ cCall.variant = "Direct"
    /\ cOut # NoOutput

\* the four parameter bytes of an encoded Direct command
ParameterBytes(bytes) == SubSeq(bytes, 5, 8)

\* nibble k of x, k = 3 the most significant
Nibble(x, k) == (x \div Pow2(4 * k)) % 16

\* C15: the encodings of ZoomCommand::Direct(x) and FocusCommand::Direct(x)
\* carry x in four parameter bytes, most significant nibble first, each byte
\* holding one nibble of x in its low bits and zero in its high bits.
C15_OneNibblePerByte ==
    DirectEncoded =>
        /\ cOut.tag = "Ok"
        /\ Len(cOut.bytes) = 9
        /\ \A k \in 1..4 : ParameterBytes(cOut.bytes)[k] = Nibble(cCall.arg[1], 4 - k)

\* the reply a device sends for the position the Direct command carried
PositionReply(params) == <<HEADER, INQUIRY_CODE>> \o params \o <<TERMINATOR>>

PositionType == IF cCall.op = "ZoomCommand" THEN "ZoomPosition" ELSE "FocusPosition"

\* C16: round trip of the position packing: the four parameter bytes the
\* Direct encoder produces for x, decoded by the zoom/focus position decoder
\* of parse_visca_response, give x back, for every 16-bit x.
C16_PositionRoundTrip ==
    DirectEncoded =>
        /\ cOut.tag = "Ok"
        /\ parse_visca_response(PositionReply(ParameterBytes(cOut.bytes)), PositionType)
               = [tag |-> "Inquiry", what |-> PositionType, position |-> cCall.arg[1]]

\* x = 0x1234: the second parameter byte is 0x12, and the decoder returns x
C16_Witness ==
    /\ DirectEncoded
    /\ cCall.op = "ZoomCommand"
    /\ cCall.arg[1] = 4660
    /\ ParameterBytes(cOut.bytes) = <<1, 18, 35, 4>>
    /\ parse_visca_response(PositionReply(ParameterBytes(cOut.bytes)), "ZoomPosition").position
           = 4660


\* C17: for every command value whose to_bytes succeeds, the encoded sequence
\* starts with the header 0x81, ends with the terminator 0xFF, and has 0xFF at
\* no earlier position.
C17_EncodedFrame ==
    (IsEncoderCall /\ cOut # NoOutput /\ cOut.tag = "Ok") =>
        /\ cOut.bytes[1] = COMMAND_HEADER
        /\ Last(cOut.bytes) = TERMINATOR
        /\ \A i \in 1..(Len(cOut.bytes) - 1) : cOut.bytes[i] # TERMINATOR


(***************************************************************************)
(* lib.rs: display_camera_response, which send_command_and_wait calls on   *)
(* every message it examines.  The function only logs; the operator gives  *)
(* which of its log lines the message gets (the payload-specific lines of  *)
(* the inquiry arm are one class, "Inquiry").                              *)
(***************************************************************************)
display_camera_response(response) ==
    IF Len(response) < 3 THEN "UnexpectedFormat"
    ELSE IF Len(response) = 3 /\ response[1] = HEADER /\ response[3] = TERMINATOR
            /\ response[2] \in ACK_LO..ACK_HI
         THEN "Ack"
    ELSE IF Len(response) = 3 /\ response[1] = HEADER /\ response[3] = TERMINATOR
            /\ response[2] \in COMPLETION_LO..COMPLETION_HI
         THEN "Completion"
    ELSE IF response = <<HEADER, ERROR_LO, 2, TERMINATOR>> THEN "SyntaxError"
    ELSE IF response = <<HEADER, ERROR_LO, 3, TERMINATOR>> THEN "CommandBufferFull"
    ELSE IF Len(response) = 4 /\ response[1] = HEADER /\ response[4] = TERMINATOR
            /\ response[2] \in ERROR_LO..ERROR_HI /\ response[3] \in {4, 5, 65}
         THEN CASE response[3] = 4  -> "CommandCanceled"
                [] response[3] = 5  -> "NoSocket"
                [] response[3] = 65 -> "CommandNotExecutable"
    ELSE IF response[1] = HEADER /\ response[2] = INQUIRY_CODE
            /\ Last(response) = TERMINATOR
         THEN "Inquiry"
    ELSE "UnexpectedFormat"

(***************************************************************************)
(* SpecDecode: one call of a response decoder on one message.              *)
(***************************************************************************)
MaxPayload == 9     \* bytes between the code byte and the terminator

LUMINANCE_LEN == 7  \* 0x90 0x50 0x00 0x00 0x00 pp 0xFF

\* ViscaResponseType: the five types parse_visca_response has an arm for, and
\* two of those it has none for
ResponseTypes ==
    {"PanTiltPosition", "ZoomPosition", "FocusPosition", "ExposureMode",
     "WhiteBalanceMode", "Luminance", "Contrast"}

\* first payload bytes of the messages of the model: error subcodes, mode
\* values, and bytes that are neither
FirstPayloadBytes == {0, 2, 3, 4, 5, 9, 65}

\* header, any code byte, a payload, terminator
Message(code, n, first) ==
    <<HEADER, code>> \o [i \in 1..n |-> IF i = 1 THEN first ELSE 0] \o <<TERMINATOR>>

\* nibble values of the position replies of the model
NibbleSamples == {0, 1, 8, 15}

\* the reply to the pan/tilt position inquiry: four nibbles of pan, four of tilt
PanTiltReply(p, t) == <<HEADER, INQUIRY_CODE>> \o p \o t \o <<TERMINATOR>>

\* byte sequences that are not well framed: a first byte, a code, a payload
\* of n zero bytes, a last byte
FirstByteSamples == {0, 129, HEADER, TERMINATOR}
LastByteSamples == {0, 254, HEADER, TERMINATOR}
CodeSamples == {7, 65, 80, 96}
Framed(h, code, n, l) == <<h, code>> \o [i \in 1..n |-> 0] \o <<l>>

\* sequences shorter than three bytes
ShortSequences ==
    {<<>>} \cup {<<a>> : a \in {HEADER, 80, TERMINATOR}}
           \cup {<<a, b>> : a \in {HEADER, 80, TERMINATOR}, b \in {HEADER, 80, TERMINATOR}}

IsDecodeCall(c) ==
    \/ \E p \in [1..4 -> NibbleSamples], t \in [1..4 -> NibbleSamples] :
           c = Call("ViscaResponse::from_bytes", "PanTiltPosition", PanTiltReply(p, t))
    \/ \E rt \in ResponseTypes, code \in U8 :
           c = Call("ViscaResponse::from_bytes", rt, Message(code, 0, 0))
    \/ \E rt \in ResponseTypes, code \in U8, n \in 1..MaxPayload, b \in FirstPayloadBytes :
           c = Call("ViscaResponse::from_bytes", rt, Message(code, n, b))
    \/ \E rt \in ResponseTypes, m \in ShortSequences :
           c = Call("parse_visca_response", rt, m)
    \/ \E rt \in ResponseTypes, h \in FirstByteSamples, code \in CodeSamples,
          n \in 0..MaxPayload, l \in LastByteSamples :
           /\ ~(h = HEADER /\ l = TERMINATOR)
           /\ c = Call("parse_visca_response", rt, Framed(h, code, n, l))
    \/ \E p \in [1..4 -> NibbleSamples], t \in [1..4 -> NibbleSamples] :
           c = Call("parse_visca_response", "PanTiltPosition", PanTiltReply(p, t))
    \/ \E rt \in ResponseTypes, code \in U8 :
           c = Call("parse_visca_response", rt, Message(code, 0, 0))
    \/ \E rt \in ResponseTypes, code \in U8, n \in 1..MaxPayload, b \in FirstPayloadBytes :
           c = Call("parse_visca_response", rt, Message(code, n, b))
    \/ \E code \in U8 :
           c = Call("display_camera_response", "log", Message(code, 0, 0))
    \/ \E code \in U8, n \in 1..MaxPayload, b \in FirstPayloadBytes :
           c = Call("display_camera_response", "log", Message(code, n, b))

InitDecode ==
    /\ TransportUnused
    /\ IsDecodeCall(cCall)
    /\ cOut = NoOutput

Decode ==
    Returns("parse_visca_response", parse_visca_response(cCall.arg, cCall.variant))

Display ==
    Returns("display_camera_response",
            [tag |-> "Log", line |-> display_camera_response(cCall.arg)])

FromBytes ==
    Returns("ViscaResponse::from_bytes", from_bytes(cCall.arg, cCall.variant))

NextDecode ==
    \/ Decode
    \/ FromBytes
    \/ Display

SpecDecode == InitDecode /\ [][NextDecode]_vars


\* parse_visca_response has returned for the message cCall.arg
Parsed ==
    /\ cCall.op = "parse_visca_response"
    /\ cOut # NoOutput

\* the error kind the protocol assigns to a subcode
KindOfSubcode(sub) ==
    CASE sub = 2  -> [kind |-> "SyntaxError"]
      [] sub = 3  -> [kind |-> "CommandBufferFull"]
      [] sub = 4  -> [kind |-> "CommandCanceled"]
      [] sub = 5  -> [kind |-> "NoSocket"]
      [] sub = 65 -> [kind |-> "CommandNotExecutable"]
      [] OTHER    -> [kind |-> "Unknown", code |-> sub]

\* C18: parse_visca_response classifies every well-framed message by its
\* second byte alone: 0x40..0x4F is Ack; 0x50..0x5F is Completion when the
\* message has exactly 3 bytes and otherwise an inquiry reply decoded per the
\* response type (a value, or the error of a failed decoding); 0x60..0x6F is a
\* device error; any other code gives Unknown with the message's bytes
\* unchanged, never an error.
C18_ClassifiedByCode ==
    (Parsed /\ WellFramed(cCall.arg)) =>
        LET code == cCall.arg[2] IN
        /\ code \in ACK_LO..ACK_HI => cOut = [tag |-> "Ack"]
        /\ (code \in COMPLETION_LO..COMPLETION_HI /\ Len(cCall.arg) = 3) =>
               cOut = [tag |-> "Completion"]
        /\ (code \in COMPLETION_LO..COMPLETION_HI /\ Len(cCall.arg) > 3) =>
               \/ cOut.tag = "Inquiry"
               \/ /\ cOut.tag = "Err"
                  /\ cOut.err.kind \in {"InvalidResponseLength", "UnexpectedResponseType"}
        /\ code \in ERROR_LO..ERROR_HI =>
               cOut = [tag |-> "Err", err |-> KindOfSubcode(cCall.arg[3])]
        /\ code \notin ACK_LO..ERROR_HI =>
               cOut = [tag |-> "Unknown", raw |-> cCall.arg]


\* the call was made on a device error message: header, a code in 0x60..0x6F,
\* a subcode, terminator
OnErrorMessage ==
    /\ cOut # NoOutput
    /\ Len(cCall.arg) = 4
    /\ WellFramed(cCall.arg)
    /\ cCall.arg[2] \in ERROR_LO..ERROR_HI

\* C19: for a message with code in 0x60..0x6F the error kind is decided by
\* the subcode, the byte after the code, for every code of the range: 0x02
\* SyntaxError, 0x03 CommandBufferFull, 0x04 CommandCanceled, 0x05 NoSocket,
\* 0x41 CommandNotExecutable, any other subcode s Unknown(s).  This holds of
\* the error parse_visca_response returns and of the error
\* display_camera_response reports for the five named subcodes.
C19_KindBySubcode ==
    OnErrorMessage =>
        /\ cCall.op = "parse_visca_response" =>
               cOut = [tag |-> "Err", err |-> KindOfSubcode(cCall.arg[3])]
        /\ (cCall.op = "display_camera_response" /\ cCall.arg[3] \in {2, 3, 4, 5, 65}) =>
               cOut.line = KindOfSubcode(cCall.arg[3]).kind

\* the total length of a reply of each response type
FixedLength(rt) ==
    CASE rt = "PanTiltPosition" -> PAN_TILT_LEN
      [] rt \in {"ZoomPosition", "FocusPosition"} -> POSITION_LEN
      [] rt \in {"ExposureMode", "WhiteBalanceMode"} -> MODE_LEN
      [] rt \in {"Luminance", "Contrast"} -> LUMINANCE_LEN

\* C20: for every response type, a message with code in 0x50..0x5F and more
\* than 3 bytes whose length is not the length of that type's reply decodes to
\* the error InvalidResponseLength, never to Completion or to a value.
C20_WrongLengthRejected ==
    (/\ Parsed
     /\ WellFramed(cCall.arg)
     /\ cCall.arg[2] \in COMPLETION_LO..COMPLETION_HI
     /\ Len(cCall.arg) > 3
     /\ Len(cCall.arg) # FixedLength(cCall.variant)) =>
        cOut = [tag |-> "Err", err |-> [kind |-> "InvalidResponseLength"]]


\* the unsigned 16-bit value of four nibbles, most significant first
NibbleCombine(n) == n[1] * 4096 + n[2] * 256 + n[3] * 16 + n[4]

\* parse_visca_response has returned for an 11-byte pan/tilt position reply
\* whose eight payload bytes are nibbles
PanTiltDecoded ==
    /\ Parsed
    /\ cCall.variant = "PanTiltPosition"
    /\ WellFramed(cCall.arg)
    /\ Len(cCall.arg) = PAN_TILT_LEN
    /\ cCall.arg[2] = INQUIRY_CODE
    /\ \A i \in 3..10 : cCall.arg[i] \in 0..15

AckCompletionOrErrorShaped(m) ==
    /\ WellFramed(m)
    /\ \/ Len(m) = 3 /\ m[2] \in ACK_LO..COMPLETION_HI
       \/ m[2] \in ERROR_LO..ERROR_HI

\* the call is for a command without response type and the message it examined
\* last has none of the three shapes
ForeignMessageExamined ==
    /\ command \in Commands
    /\ response_type(command) = "None"
    /\ lastMsg # <<>>
    /\ ~AckCompletionOrErrorShaped(lastMsg)

\* C22: for a command that declares no response type, a message that is not
\* Ack-, Completion- or Error-shaped (a code 0x50 message with a payload, for
\* one) makes the call fail with UnexpectedResponseType; the call never
\* returns Ok on it.
C22_ForeignMessageRejected ==
    ForeignMessageExamined =>
        /\ pc = "done"
        /\ result = ErrResult("UnexpectedResponseType")


\* the variable-speed commands of both encoders, with the base of their byte
TeleOrFar ==
    \/ cCall.op = "ZoomCommand" /\ cCall.variant = "TeleVariable"
    \/ cCall.op = "FocusCommand" /\ cCall.variant = "FarVariable"
    \/ cCall.op = "ViscaCommand"
           /\ cCall.variant \in {"ZoomTeleAdjustableSpeed", "FocusFarAdjustableSpeed"}

WideOrNear ==
    \/ cCall.op = "ZoomCommand" /\ cCall.variant = "WideVariable"
    \/ cCall.op = "FocusCommand" /\ cCall.variant = "NearVariable"
    \/ cCall.op = "ViscaCommand"
           /\ cCall.variant \in {"ZoomWideAdjustableSpeed", "FocusNearAdjustableSpeed"}

SpeedBase == IF TeleOrFar THEN 32 ELSE 48

\* C23: for every speed s in 0..7 a variable-speed command encodes s in its
\* fifth byte as base OR s, base 0x20 for zoom tele and focus far, 0x30 for
\* zoom wide and focus near; for s > 7 no encoding is produced, so the byte
\* stays within the 8 values of its command.
C23_SpeedByte ==
    ((TeleOrFar \/ WideOrNear) /\ cOut # NoOutput) =>
        IF cCall.arg[1] <= 7
        THEN /\ cOut.tag = "Ok"
             /\ cOut.bytes[5] = SpeedBase + cCall.arg[1]
        ELSE cOut.tag # "Ok"


\* C24: every message parse_response returns begins with the header 0x90 and
\* ends with the terminator 0xFF, with no 0xFF at an earlier position.
C24_EmittedFramed ==
    \A i \in DOMAIN fEmitted :
        /\ fEmitted[i][1] = HEADER
        /\ Last(fEmitted[i]) = TERMINATOR
        /\ \A j \in 1..(Len(fEmitted[i]) - 1) : fEmitted[i][j] # TERMINATOR


\* terminal for the command of the call: a Completion, the inquiry reply of
\* the command's response type, or a device error
IsTerminalMsg(m) == IsCompletionMsg(m) \/ IsInquiryReplyMsg(m) \/ IsDeviceErrorMsg(m)

\* C25: the messages of one batch are examined strictly in the order their
\* bytes arrived; the first terminal one ends the call, a message that is not
\* terminal does not, and the messages framed after the one that ended the
\* call are dropped with the batch, so that no call examines them.
C25_BatchInOrder ==
    [][(pc = "loop" /\ responses' # responses) =>
           /\ lastMsg' = Head(responses)
           /\ IF IsTerminalMsg(Head(responses))
              THEN /\ pc' = "done"
                   /\ endedBy' = Head(responses)
                   /\ responses' = <<>>
              ELSE /\ pc' # "done"
                   /\ responses' = Tail(responses)]_vars


(***************************************************************************)
(* SpecLive: send_command_and_wait with the scheduling the sockets give.   *)
(* Both constructors set a read timeout (lib.rs:24, 40), so a blocking     *)
(* read returns: with bytes, or with an error once the deadline expires.   *)
(* The for loop over a batch runs on without waiting.  A read that returns *)
(* zero bytes is not part of this specification.                           *)
(***************************************************************************)
ReadReturns ==
    \/ \E n \in 1..Len(wire) : ReadOk(n)
    \/ \E e \in IoErrors : ReadErr(e)

\* one message of each length the for loop tells apart: three bytes that do
\* not end a call, three bytes that do, four bytes, eleven bytes
LiveMessages == {AckMsg, CompletionMsg, SyntaxErrorMsg, PanTiltReplyMsg}

\* one command for each branch of the loop's test (lib.rs:160, lib.rs:168)
LiveCommands == {"InquiryPanTiltPosition", "PanTiltHome"}

MaxLiveCalls == 1   \* calls followed to their return

NextLive ==
    \/ \E c \in LiveCommands : calls < MaxLiveCalls /\ CallSendOk(c)
    \/ \E c \in LiveCommands, e \in IoErrors : calls < MaxLiveCalls /\ CallSendErr(c, e)
    \/ \E m \in LiveMessages : DeviceEmit(m)
    \/ ReadReturns
    \/ Examine
    \/ Return

SpecLive ==
    /\ Init
    /\ [][NextLive]_vars
    /\ WF_vars(ReadReturns)
    /\ WF_vars(Examine)

\* C26: every send_command_and_wait call eventually returns: when each
\* blocking read delivers bytes or fails at its deadline and the device sends
\* finitely many messages, a call that is receiving or examining a batch
\* comes to its return, on a message or with the transport's error.
C26_CallReturns ==
    (pc \in {"recv", "loop"}) ~> (pc = "done" /\ result \in {OkResult} \cup {ErrResult(e) : e \in IoErrors \cup {"InvalidData"}})

\* a call that examined a message which did not end it has returned with the
\* error of the read that timed out
C26_Witness ==
    /\ pc = "done"
    /\ lastMsg # <<>>
    /\ endedBy = <<>>
    /\ result = ErrResult("TimedOut")


(***************************************************************************)
(* Attribution of replies.  staleFrames counts the messages the current    *)
(* call will be handed that the device had put on the wire before the      *)
(* call's command was sent: send_command_and_wait reads whatever the       *)
(* socket holds and keeps no record of the command a message answers.      *)
(***************************************************************************)
\* C27: a reply is only ever attributed to the command it answers: over any
\* sequence of calls, the message on which a call for c returns was emitted
\* by the device after c was sent, never one left unread by an earlier call.
C27_ReplyAttributed ==
    [][(pc = "loop" /\ pc' = "done" /\ endedBy' # <<>>) => staleFrames = 0]_vars


\* C28: receive_response never indexes its read buffer out of bounds: the
\* index bytes_received - 1 it tests after a read lies inside the buffer for
\* every read that returns Ok, a read of zero bytes included, so no call ends
\* in a panic.
C28_IndexInBounds == pc # "panic"


\* the results parse_visca_response can return
IsResult(r) ==
    \/ r \in {[tag |-> "Ack"], [tag |-> "Completion"]}
    \/ r.tag \in {"Inquiry", "Unknown", "Err"}

\* C29: parse_visca_response is total: it returns a result for every byte
\* sequence and response type, and a sequence shorter than 3 bytes, not
\* starting with 0x90 or not ending with 0xFF yields InvalidResponseFormat.
C29_TotalAndFormatChecked ==
    Parsed =>
        /\ IsResult(cOut)
        /\ (Len(cCall.arg) < 3 \/ Head(cCall.arg) # 144 \/ cCall.arg[Len(cCall.arg)] # 255) =>
               cOut = [tag |-> "Err", err |-> [kind |-> "InvalidResponseFormat"]]

\* a three-byte sequence with the header and an Ack code whose last byte is
\* not the terminator has been rejected
C29_Witness ==
    /\ Parsed
    /\ cCall.arg = <<144, 65, 254>>
    /\ cOut = [tag |-> "Err", err |-> [kind |-> "InvalidResponseFormat"]]

\* the empty sequence has been rejected without an index being evaluated
C29_WitnessEmpty ==
    /\ Parsed
    /\ cCall.arg = <<>>
    /\ cOut = [tag |-> "Err", err |-> [kind |-> "InvalidResponseFormat"]]


\* two decoding results say the same: the same classification, for an error
\* the same kind, for a position reply the same values
SameDecoding(a, b) ==
    /\ a.tag = b.tag
    /\ a.tag = "Err" => a.err.kind = b.err.kind
    /\ a.tag = "Inquiry" =>
          /\ a.what = b.what
          /\ a.what \in {"PanTiltPosition", "ZoomPosition", "FocusPosition"} => a = b

\* C30: the two response decoders agree: for every well-framed message and
\* every response type, ViscaResponse::from_bytes returns what
\* parse_visca_response returns: the same classification (Ack, Completion,
\* the same device error kind, Unknown) and, for a pan/tilt, zoom or focus
\* position reply, the same decoded position values.
C30_DecodersAgree ==
    (/\ cCall.op = "ViscaResponse::from_bytes"
     /\ cOut # NoOutput
     /\ WellFramed(cCall.arg)) =>
        SameDecoding(cOut, parse_visca_response(cCall.arg, cCall.variant))

====
